---- MODULE Spec2Model ----
(***************************************************************************)
(* Contextual bookmarks: the multi-context BookmarkManager (bookmark       *)
(* store, navigation cursor and edit reconciliation) as a state machine.   *)
(* Indexes are 0-based as in the TypeScript source; the element at index i *)
(* of a sequence s is s[i + 1].                                            *)
(***************************************************************************)
EXTENDS Integers, Sequences, FiniteSets, TLC

----------------------------------------------------------------------------
(* Bounds of the model *)

\* number of bookmark ids (uuids) that exist in one run
MaxId == 3
\* highest 1-based line number a bookmark is followed to
MaxLine == 12
\* highest 0-based line a content change starts or ends at
MaxChangeLine == 6
\* most line breaks one content change replaces
MaxSpan == 2
\* number of bookmark ids in a run whose writes can be rejected
MaxFaultyId == 2
\* highest 0-based line a content change of a batch starts or ends at
MaxBatchLine == 2
\* number of jumps the navigation commands start in one run
MaxJumps == 3
\* number of calls of save() in one run that are not awaited by the next call
MaxFlushes == 3

----------------------------------------------------------------------------
(* Values *)

DEFAULT_CONTEXT == "default"

\* context names a user can type; "" is the empty name
CtxNames == {"default", "work"}
CtxInputs == CtxNames \cup {""}

Files == {"f", "g"}
Labels == {"x", "y"}

\* JavaScript undefined, where a Bookmark (or a bookmark id) is expected
Undefined == [id |-> 0, fsPath |-> "", lineNumber |-> 0, label |-> ""]
NoId == 0

Bookmark(id, fsPath, lineNumber, label) ==
    [id |-> id, fsPath |-> fsPath, lineNumber |-> lineNumber, label |-> label]

VARIABLES
    storage,               \* BookmarkStorage: context id -> sequence of Bookmark
    activeContextId,
    currentBookmarkIndex,  \* -1 when unset
    workspaceState,        \* the persisted key-value entries
    nextId,                \* the next uuid uuidv4() hands out
    last,                  \* the last call: [op, arg, res]
    jumps,                 \* the jumps the navigation commands started
    writes                 \* the writes issued without awaiting the one before

vars == <<storage, activeContextId, currentBookmarkIndex, workspaceState, nextId, last,
          jumps, writes>>

\* what the commands of the integration layer have in flight
inFlight == <<jumps, writes>>

----------------------------------------------------------------------------
(* workspaceState: a Memento, load value by key / store value by key *)

Get(ws, key, defaultValue) == IF key \in DOMAIN ws THEN ws[key] ELSE defaultValue

Has(ws, key) == key \in DOMAIN ws

\* update(key, undefined) removes the entry
Update(ws, key, value, remove) ==
    IF remove
    THEN [k \in DOMAIN ws \ {key} |-> ws[k]]
    ELSE [k \in DOMAIN ws \cup {key} |-> IF k = key THEN value ELSE ws[k]]

----------------------------------------------------------------------------
(* Array helpers *)

Min(S) == CHOOSE x \in S : \A y \in S : x <= y

\* Array.prototype.findIndex(b => b.id === id)
FindIndex(bookmarks, id) ==
    LET hits == {i \in 1..Len(bookmarks) : bookmarks[i].id = id}
    IN  IF hits = {} THEN -1 ELSE Min(hits) - 1

\* Array.prototype.filter(b => b.id !== id)
FilterOutId(bookmarks, id) == SelectSeq(bookmarks, LAMBDA b : b.id # id)

\* Array.prototype.splice(index, 1)
SpliceOut(bookmarks, index) ==
    [i \in 1..(Len(bookmarks) - 1) |->
        IF i <= index THEN bookmarks[i] ELSE bookmarks[i + 1]]

\* a faulty SpliceIn: splice(index, 1, item), the item takes the place of the
\* element at the index
SpliceInReplacing(bookmarks, index, item) ==
    [i \in 1..Len(bookmarks) |-> IF i = index + 1 THEN item ELSE bookmarks[i]]

\* Array.prototype.splice(index, 0, item)
SpliceIn(bookmarks, index, item) ==
    [i \in 1..(Len(bookmarks) + 1) |->
        IF i <= index THEN bookmarks[i]
        ELSE IF i = index + 1 THEN item
        ELSE bookmarks[i - 1]]

\* storage[contextId] = bookmarks
SetContext(st, contextId, bookmarks) ==
    [k \in DOMAIN st \cup {contextId} |-> IF k = contextId THEN bookmarks ELSE st[k]]

\* delete storage[contextId]
DeleteKey(st, contextId) == [k \in DOMAIN st \ {contextId} |-> st[k]]

\* this.storage[contextId] is truthy: the context exists
Exists(st, contextId) == contextId \in DOMAIN st

----------------------------------------------------------------------------
(* Persistence *)

\* a faulty Save: the active context id is not written
SaveStorageOnly(ws, st, active) == Update(ws, "bookmark-storage", st, FALSE)

\* save(): both keyed writes
Save(ws, st, active) ==
    Update(Update(ws, "bookmark-storage", st, FALSE),
           "bookmark-active-context", active, FALSE)

\* The write a call of save() can have rejected: none, the write of
\* bookmark-storage (the second write is then never issued), or the write of
\* bookmark-active-context
Faults == {"none", "storage", "active"}

\* the entries after save() met the fault; with "pending" in its place the
\* caller does not await the operation, and the entries are as they were when
\* the operation hands control back at the first await of save()
SaveOutcome(ws, st, active, fault) ==
    IF fault = "none" THEN Save(ws, st, active)
    ELSE IF fault \in {"storage", "pending"} THEN ws
    ELSE Update(ws, "bookmark-storage", st, FALSE)

\* what the caller of an async operation gets: the value the promise resolves
\* to, the rejection that await this.save() passes on, or a promise that is
\* still pending and will resolve to the value
Settled(op, arg, res, fault) ==
    IF fault = "none"
    THEN [op |-> op, arg |-> arg, res |-> res]
    ELSE IF fault = "pending"
    THEN [op |-> op, arg |-> arg, pending |-> res]
    ELSE [op |-> op, arg |-> arg, threw |-> fault]

----------------------------------------------------------------------------
(* Writes in flight: save() awaits update('bookmark-storage', ...) and then   *)
(* issues update('bookmark-active-context', ...). writes holds the writes     *)
(* issued by operations that were not awaited, in the order of their issue,   *)
(* each in flight or done.                                                    *)

Write(key, value) == [key |-> key, value |-> value, done |-> FALSE]

\* save() up to its first await: the write of the mapping is issued
IssueSave(issued, st) == Append(issued, Write("bookmark-storage", st))

\* the writes still in flight
InFlightWrites(issued) == { k \in 1..Len(issued) : ~issued[k].done }

\* no write is in flight
Idle(issued) == InFlightWrites(issued) = {}

\* number of calls of save() that were started
Flushes(issued) == Cardinality({ k \in 1..Len(issued) : issued[k].key = "bookmark-storage" })

\* a faulty NextWrite: the write issued last takes effect first
LatestWrite(issued) ==
    CHOOSE k \in InFlightWrites(issued) : \A j \in InFlightWrites(issued) : j <= k

\* the write that takes effect next: the Memento applies updates in the order
\* they were issued
NextWrite(issued) == Min(InFlightWrites(issued))

\* a faulty ActiveOrDefault: falls back to the default id without creating it
ActiveOrDefaultNotCreated(st0, active0) ==
    IF Exists(st0, active0)
    THEN [storage |-> st0, active |-> active0]
    ELSE [storage |-> st0, active |-> DEFAULT_CONTEXT]

\* load(), "Ensure active context exists"
ActiveOrDefault(st0, active0) ==
    IF Exists(st0, active0)
    THEN [storage |-> st0, active |-> active0]
    ELSE [storage |-> IF Exists(st0, DEFAULT_CONTEXT)
                      THEN st0
                      ELSE SetContext(st0, DEFAULT_CONTEXT, <<>>),
          active  |-> DEFAULT_CONTEXT]

\* a faulty Load: the legacy entry is migrated but not cleared
LoadKeepsLegacy(ws) ==
    LET oldBookmarks == Get(ws, "bookmarks", <<>>)
    IN  IF Has(ws, "bookmarks") /\ Len(oldBookmarks) > 0
        THEN LET st == SetContext(<<>>, DEFAULT_CONTEXT, oldBookmarks)
             IN  [storage |-> st,
                  active  |-> DEFAULT_CONTEXT,
                  ws      |-> Save(ws, st, DEFAULT_CONTEXT)]
        ELSE LET st0     == Get(ws, "bookmark-storage", SetContext(<<>>, DEFAULT_CONTEXT, <<>>))
                 active0 == Get(ws, "bookmark-active-context", DEFAULT_CONTEXT)
                 ensured == ActiveOrDefault(st0, active0)
             IN  [storage |-> ensured.storage, active |-> ensured.active, ws |-> ws]

\* load(): the store hydrated from the persisted entries ws, and the entries
\* as load leaves them once the writes it issues have completed
Load(ws) ==
    LET oldBookmarks == Get(ws, "bookmarks", <<>>)
    IN  IF Has(ws, "bookmarks") /\ Len(oldBookmarks) > 0
        THEN LET st == SetContext(<<>>, DEFAULT_CONTEXT, oldBookmarks)
             IN  [storage |-> st,
                  active  |-> DEFAULT_CONTEXT,
                  ws      |-> Save(Update(ws, "bookmarks", <<>>, TRUE), st, DEFAULT_CONTEXT)]
        ELSE LET st0     == Get(ws, "bookmark-storage", SetContext(<<>>, DEFAULT_CONTEXT, <<>>))
                 active0 == Get(ws, "bookmark-active-context", DEFAULT_CONTEXT)
                 ensured == ActiveOrDefault(st0, active0)
             IN  [storage |-> ensured.storage, active |-> ensured.active, ws |-> ws]

----------------------------------------------------------------------------
(* Context management *)

\* getActiveContextId()
GetActiveContextId ==
    /\ last' = [op |-> "getActiveContextId", arg |-> NoId, res |-> activeContextId]
    /\ UNCHANGED <<storage, activeContextId, currentBookmarkIndex, workspaceState, nextId>>

\* getAllContextIds(): Object.keys(storage)
GetAllContextIds ==
    /\ last' = [op |-> "getAllContextIds", arg |-> NoId, res |-> DOMAIN storage]
    /\ UNCHANGED <<storage, activeContextId, currentBookmarkIndex, workspaceState, nextId>>

\* createContext(newContextId), its save() meeting the fault
CreateContextSaving(newContextId, fault) ==
    IF Exists(storage, newContextId) \/ newContextId = ""
    THEN /\ fault = "none"
         /\ last' = [op |-> "createContext", arg |-> newContextId, res |-> FALSE]
         /\ UNCHANGED <<storage, activeContextId, currentBookmarkIndex, workspaceState, nextId>>
    ELSE /\ storage' = SetContext(storage, newContextId, <<>>)
         /\ workspaceState' = SaveOutcome(workspaceState, storage', activeContextId, fault)
         /\ last' = Settled("createContext", newContextId, TRUE, fault)
         /\ UNCHANGED <<activeContextId, currentBookmarkIndex, nextId>>

\* a faulty CreateContext: the new context is made the active one
CreateContextAndSwitch(newContextId) ==
    IF Exists(storage, newContextId) \/ newContextId = ""
    THEN /\ last' = [op |-> "createContext", arg |-> newContextId, res |-> FALSE]
         /\ UNCHANGED <<storage, activeContextId, currentBookmarkIndex, workspaceState, nextId>>
    ELSE /\ storage' = SetContext(storage, newContextId, <<>>)
         /\ activeContextId' = newContextId
         /\ workspaceState' = Save(workspaceState, storage', activeContextId')
         /\ last' = [op |-> "createContext", arg |-> newContextId, res |-> TRUE]
         /\ UNCHANGED <<currentBookmarkIndex, nextId>>

\* createContext(newContextId)
CreateContext(newContextId) == CreateContextSaving(newContextId, "none")

\* switchContext(contextId), its save() meeting the fault
SwitchContextSaving(contextId, fault) ==
    IF ~Exists(storage, contextId)
    THEN /\ fault = "none"
         /\ last' = [op |-> "switchContext", arg |-> contextId, res |-> FALSE]
         /\ UNCHANGED <<storage, activeContextId, currentBookmarkIndex, workspaceState, nextId>>
    ELSE /\ activeContextId' = contextId
         /\ currentBookmarkIndex' = -1
         /\ workspaceState' = SaveOutcome(workspaceState, storage, contextId, fault)
         /\ last' = Settled("switchContext", contextId, TRUE, fault)
         /\ UNCHANGED <<storage, nextId>>

\* a faulty SwitchContext: the cursor is kept
SwitchContextKeepsCursor(contextId) ==
    IF ~Exists(storage, contextId)
    THEN /\ last' = [op |-> "switchContext", arg |-> contextId, res |-> FALSE]
         /\ UNCHANGED <<storage, activeContextId, currentBookmarkIndex, workspaceState, nextId>>
    ELSE /\ activeContextId' = contextId
         /\ workspaceState' = Save(workspaceState, storage, contextId)
         /\ last' = [op |-> "switchContext", arg |-> contextId, res |-> TRUE]
         /\ UNCHANGED <<storage, currentBookmarkIndex, nextId>>

\* switchContext(contextId)
SwitchContext(contextId) == SwitchContextSaving(contextId, "none")

\* the outcome deleteContext(contextId) returns
DeleteOutcome(st, active, contextId) ==
    IF ~Exists(st, contextId) THEN "not_found"
    ELSE IF contextId = active THEN "active"
    ELSE IF Cardinality(DOMAIN st) <= 1 THEN "last"
    ELSE "success"

\* deleteContext(contextId), its save() meeting the fault
DeleteContextSaving(contextId, fault) ==
    LET outcome == DeleteOutcome(storage, activeContextId, contextId)
    IN  /\ IF outcome = "success"
           THEN /\ storage' = DeleteKey(storage, contextId)
                /\ workspaceState' = SaveOutcome(workspaceState, storage', activeContextId, fault)
                /\ last' = Settled("deleteContext", contextId, outcome, fault)
           ELSE /\ fault = "none"
                /\ last' = [op |-> "deleteContext", arg |-> contextId, res |-> outcome]
                /\ UNCHANGED <<storage, workspaceState>>
        /\ UNCHANGED <<activeContextId, currentBookmarkIndex, nextId>>

\* deleteContext(contextId)
DeleteContext(contextId) == DeleteContextSaving(contextId, "none")

\* a faulty RenameContext: the active id is not carried to the new name
RenameContextLeavesActive(oldName, newName) ==
    LET arg == [oldName |-> oldName, newName |-> newName]
    IN  IF ~Exists(storage, oldName) \/ newName = ""
           \/ (Exists(storage, newName) /\ newName # oldName)
        THEN /\ last' = [op |-> "renameContext", arg |-> arg, res |-> "failed"]
             /\ UNCHANGED <<storage, activeContextId, currentBookmarkIndex, workspaceState, nextId>>
        ELSE /\ storage' = SetContext(DeleteKey(storage, oldName), newName, storage[oldName])
             /\ workspaceState' = Save(workspaceState, storage', activeContextId)
             /\ last' = [op |-> "renameContext", arg |-> arg, res |-> "success"]
             /\ UNCHANGED <<activeContextId, currentBookmarkIndex, nextId>>

\* renameContext(oldName, newName): the result is 'success' or the reason of
\* the failure
RenameContext(oldName, newName) ==
    LET arg == [oldName |-> oldName, newName |-> newName]
    IN  IF ~Exists(storage, oldName)
        THEN /\ last' = [op |-> "renameContext", arg |-> arg, res |-> "not_found"]
             /\ UNCHANGED <<storage, activeContextId, currentBookmarkIndex, workspaceState, nextId>>
        ELSE IF newName = ""
        THEN /\ last' = [op |-> "renameContext", arg |-> arg, res |-> "invalid"]
             /\ UNCHANGED <<storage, activeContextId, currentBookmarkIndex, workspaceState, nextId>>
        ELSE IF Exists(storage, newName) /\ newName # oldName
        THEN /\ last' = [op |-> "renameContext", arg |-> arg, res |-> "exists"]
             /\ UNCHANGED <<storage, activeContextId, currentBookmarkIndex, workspaceState, nextId>>
        ELSE /\ storage' = SetContext(DeleteKey(storage, oldName), newName, storage[oldName])
             /\ activeContextId' = IF activeContextId = oldName THEN newName ELSE activeContextId
             /\ workspaceState' = Save(workspaceState, storage', activeContextId')
             /\ last' = [op |-> "renameContext", arg |-> arg, res |-> "success"]
             /\ UNCHANGED <<currentBookmarkIndex, nextId>>

----------------------------------------------------------------------------
(* Bookmark operations on the active context *)

\* getBookmarks(): storage[activeContextId] || []
Bookmarks(st, active) == IF Exists(st, active) THEN st[active] ELSE <<>>

GetBookmarks == Bookmarks(storage, activeContextId)

\* an array obtained from getBookmarks() was changed in place: storage sees
\* the change only if the array is the one stored under the active id
InPlace(st, active, bookmarks) ==
    IF Exists(st, active) THEN SetContext(st, active, bookmarks) ELSE st

\* a faulty NewId: the id is derived from the length of the sequence
NewIdFromLength(bookmarks, uuid) == Len(bookmarks) + 1

\* id: uuidv4(), the next id never handed out before
NewId(bookmarks, uuid) == uuid

\* addBookmark(fsPath, lineNumber, label), its save() meeting the fault
AddBookmarkSaving(fsPath, lineNumber, label, fault) ==
    /\ nextId <= MaxId
    /\ LET newBookmark == Bookmark(NewId(GetBookmarks, nextId), fsPath, lineNumber, label)
       IN  storage' = InPlace(storage, activeContextId, Append(GetBookmarks, newBookmark))
    /\ last' = Settled("addBookmark",
                       [fsPath |-> fsPath, lineNumber |-> lineNumber, label |-> label],
                       NoId, fault)
    /\ nextId' = nextId + 1
    /\ workspaceState' = SaveOutcome(workspaceState, storage', activeContextId, fault)
    /\ UNCHANGED <<activeContextId, currentBookmarkIndex>>

\* addBookmark(fsPath, lineNumber, label)
AddBookmark(fsPath, lineNumber, label) == AddBookmarkSaving(fsPath, lineNumber, label, "none")

\* a faulty CursorAfterRemove: a cursor behind the removed bookmark stays put
CursorNotShifted(cursor, oldIndex) ==
    IF cursor = oldIndex THEN -1 ELSE cursor

\* the cursor after removeBookmark found the id at oldIndex (-1: not found)
CursorAfterRemove(cursor, oldIndex) ==
    IF cursor > oldIndex THEN cursor - 1
    ELSE IF cursor = oldIndex THEN -1
    ELSE cursor

\* a faulty RemoveBookmarkSaving: save() runs before the store is changed, so a
\* rejected write leaves the bookmark in the store
RemoveBookmarkSavingFirst(bookmarkId, fault) ==
    LET bookmarks == GetBookmarks
        oldIndex  == FindIndex(bookmarks, bookmarkId)
        removed   == SetContext(storage, activeContextId, FilterOutId(bookmarks, bookmarkId))
    IN  /\ IF fault = "none"
           THEN /\ storage' = removed
                /\ currentBookmarkIndex' = CursorAfterRemove(currentBookmarkIndex, oldIndex)
           ELSE UNCHANGED <<storage, currentBookmarkIndex>>
        /\ workspaceState' = SaveOutcome(workspaceState, removed, activeContextId, fault)
        /\ last' = Settled("removeBookmark", bookmarkId, NoId, fault)
        /\ UNCHANGED <<activeContextId, nextId>>

\* removeBookmark(bookmarkId), its save() meeting the fault
RemoveBookmarkSaving(bookmarkId, fault) ==
    LET bookmarks == GetBookmarks
        oldIndex  == FindIndex(bookmarks, bookmarkId)
    IN  /\ storage' = SetContext(storage, activeContextId, FilterOutId(bookmarks, bookmarkId))
        /\ currentBookmarkIndex' = CursorAfterRemove(currentBookmarkIndex, oldIndex)
        /\ workspaceState' = SaveOutcome(workspaceState, storage', activeContextId, fault)
        /\ last' = Settled("removeBookmark", bookmarkId, NoId, fault)
        /\ UNCHANGED <<activeContextId, nextId>>

\* removeBookmark(bookmarkId)
RemoveBookmark(bookmarkId) == RemoveBookmarkSaving(bookmarkId, "none")

\* a faulty ClearAllBookmarksSaving: save() is not called
ClearAllBookmarksUnsaved(fault) ==
    /\ fault = "none"
    /\ storage' = SetContext(storage, activeContextId, <<>>)
    /\ currentBookmarkIndex' = -1
    /\ last' = [op |-> "clearAllBookmarks", arg |-> NoId, res |-> NoId]
    /\ UNCHANGED <<activeContextId, workspaceState, nextId>>

\* index of the first bookmark of the file on the line, -1 when there is none
FindIndexAt(bookmarks, fsPath, lineNumber) ==
    LET hits == {i \in 1..Len(bookmarks) :
                    bookmarks[i].fsPath = fsPath /\ bookmarks[i].lineNumber = lineNumber}
    IN  IF hits = {} THEN -1 ELSE Min(hits) - 1

\* a faulty ToggleBookmark: a bookmark is added whether or not one is there
ToggleBookmarkAlwaysAdds(fsPath, lineNumber, label) ==
    /\ nextId <= MaxId
    /\ storage' = InPlace(storage, activeContextId,
                          Append(GetBookmarks, Bookmark(nextId, fsPath, lineNumber, label)))
    /\ nextId' = nextId + 1
    /\ workspaceState' = Save(workspaceState, storage', activeContextId)
    /\ last' = [op |-> "toggleBookmark",
                arg |-> [fsPath |-> fsPath, lineNumber |-> lineNumber, label |-> label],
                res |-> "added", before |-> GetBookmarks]
    /\ UNCHANGED <<activeContextId, currentBookmarkIndex>>

\* toggleBookmark(fsPath, lineNumber, label): removeBookmark of the bookmark of
\* the active context at that file and line when there is one, addBookmark
\* otherwise; the call record keeps the sequence the call found
ToggleBookmark(fsPath, lineNumber, label) ==
    LET bookmarks == GetBookmarks
        index     == FindIndexAt(bookmarks, fsPath, lineNumber)
        arg       == [fsPath |-> fsPath, lineNumber |-> lineNumber, label |-> label]
    IN  IF index # -1
        THEN /\ storage' = SetContext(storage, activeContextId,
                                      FilterOutId(bookmarks, bookmarks[index + 1].id))
             /\ currentBookmarkIndex' = CursorAfterRemove(currentBookmarkIndex, index)
             /\ workspaceState' = Save(workspaceState, storage', activeContextId)
             /\ last' = [op |-> "toggleBookmark", arg |-> arg,
                         res |-> "removed", before |-> bookmarks]
             /\ UNCHANGED <<activeContextId, nextId>>
        ELSE /\ nextId <= MaxId
             /\ storage' = InPlace(storage, activeContextId,
                                   Append(bookmarks, Bookmark(NewId(bookmarks, nextId),
                                                              fsPath, lineNumber, label)))
             /\ nextId' = nextId + 1
             /\ workspaceState' = Save(workspaceState, storage', activeContextId)
             /\ last' = [op |-> "toggleBookmark", arg |-> arg,
                         res |-> "added", before |-> bookmarks]
             /\ UNCHANGED <<activeContextId, currentBookmarkIndex>>

\* a faulty ClearAllBookmarksSaving: the sequences of all contexts are emptied
ClearAllBookmarksEverywhere(fault) ==
    /\ storage' = [c \in DOMAIN storage |-> <<>>]
    /\ currentBookmarkIndex' = -1
    /\ workspaceState' = SaveOutcome(workspaceState, storage', activeContextId, fault)
    /\ last' = Settled("clearAllBookmarks", NoId, NoId, fault)
    /\ UNCHANGED <<activeContextId, nextId>>

\* clearAllBookmarks(), its save() meeting the fault
ClearAllBookmarksSaving(fault) ==
    /\ storage' = SetContext(storage, activeContextId, <<>>)
    /\ currentBookmarkIndex' = -1
    /\ workspaceState' = SaveOutcome(workspaceState, storage', activeContextId, fault)
    /\ last' = Settled("clearAllBookmarks", NoId, NoId, fault)
    /\ UNCHANGED <<activeContextId, nextId>>

\* clearAllBookmarks()
ClearAllBookmarks == ClearAllBookmarksSaving("none")

\* a faulty Reordered: the target is looked up before the dragged bookmark is
\* taken out, so a bookmark dragged downwards lands behind the target
ReorderedStaleTarget(bookmarks, sourceIndex, targetId) ==
    LET removed     == bookmarks[sourceIndex + 1]
        rest        == SpliceOut(bookmarks, sourceIndex)
        targetIndex == FindIndex(bookmarks, targetId)
    IN  IF targetId # NoId /\ targetIndex # -1 /\ targetIndex <= Len(rest)
        THEN [bookmarks |-> SpliceIn(rest, targetIndex, removed), newIndex |-> targetIndex]
        ELSE [bookmarks |-> Append(rest, removed), newIndex |-> Len(rest)]

\* the array and newIndex reorderBookmarks computes once the dragged bookmark
\* was found at sourceIndex; targetId = NoId is an undefined targetBookmark
Reordered(bookmarks, sourceIndex, targetId) ==
    LET removed     == bookmarks[sourceIndex + 1]
        rest        == SpliceOut(bookmarks, sourceIndex)
        targetIndex == FindIndex(rest, targetId)
    IN  IF targetId # NoId /\ targetIndex # -1
        THEN [bookmarks |-> SpliceIn(rest, targetIndex, removed), newIndex |-> targetIndex]
        ELSE [bookmarks |-> Append(rest, removed), newIndex |-> Len(rest)]

\* reorderBookmarks(draggedBookmark, targetBookmark), by the ids of the two,
\* its save() meeting the fault
ReorderBookmarksSaving(draggedId, targetId, fault) ==
    LET bookmarks   == GetBookmarks
        sourceIndex == FindIndex(bookmarks, draggedId)
        arg         == [dragged |-> draggedId, target |-> targetId]
    IN  /\ IF sourceIndex = -1
           THEN /\ fault = "none"
                /\ last' = [op |-> "reorderBookmarks", arg |-> arg, res |-> NoId]
                /\ UNCHANGED <<storage, currentBookmarkIndex, workspaceState>>
           ELSE LET r == Reordered(bookmarks, sourceIndex, targetId)
                IN  /\ storage' = InPlace(storage, activeContextId, r.bookmarks)
                    /\ currentBookmarkIndex' = r.newIndex
                    /\ workspaceState' = SaveOutcome(workspaceState, storage', activeContextId, fault)
                    /\ last' = Settled("reorderBookmarks", arg, NoId, fault)
        /\ UNCHANGED <<activeContextId, nextId>>

\* reorderBookmarks(draggedBookmark, targetBookmark)
ReorderBookmarks(draggedId, targetId) == ReorderBookmarksSaving(draggedId, targetId, "none")

----------------------------------------------------------------------------
(* Navigation *)

\* setCurrentBookmarkById(bookmarkId); NoId is an absent id
SetCurrentBookmarkById(bookmarkId) ==
    /\ currentBookmarkIndex' =
          IF bookmarkId = NoId THEN -1 ELSE FindIndex(GetBookmarks, bookmarkId)
    /\ last' = [op |-> "setCurrentBookmarkById", arg |-> bookmarkId, res |-> NoId]
    /\ UNCHANGED <<storage, activeContextId, workspaceState, nextId>>

\* bookmarks[index], undefined outside the array
At(bookmarks, index) ==
    IF index >= 0 /\ index < Len(bookmarks) THEN bookmarks[index + 1] ELSE Undefined

\* what getCurrentBookmark() returns
CurrentBookmark(bookmarks, cursor) ==
    IF cursor < 0 \/ cursor >= Len(bookmarks) THEN Undefined ELSE bookmarks[cursor + 1]

\* getCurrentBookmark()
GetCurrentBookmark ==
    /\ last' = [op |-> "getCurrentBookmark", arg |-> NoId,
                res |-> CurrentBookmark(GetBookmarks, currentBookmarkIndex)]
    /\ UNCHANGED <<storage, activeContextId, currentBookmarkIndex, workspaceState, nextId>>

\* a faulty NextAtEnd: stops only when the cursor is exactly on the last element
NextAtEndExactly(bookmarks, cursor) == Len(bookmarks) = 0 \/ cursor = Len(bookmarks) - 1

\* getNextBookmark() returns undefined without moving
NextAtEnd(bookmarks, cursor) == Len(bookmarks) = 0 \/ cursor >= Len(bookmarks) - 1

\* getNextBookmark()
GetNextBookmark ==
    LET bookmarks == GetBookmarks
    IN  IF NextAtEnd(bookmarks, currentBookmarkIndex)
        THEN /\ last' = [op |-> "getNextBookmark", arg |-> NoId, res |-> Undefined]
             /\ UNCHANGED <<storage, activeContextId, currentBookmarkIndex, workspaceState, nextId>>
        ELSE /\ currentBookmarkIndex' = currentBookmarkIndex + 1
             /\ last' = [op |-> "getNextBookmark", arg |-> NoId,
                         res |-> At(bookmarks, currentBookmarkIndex')]
             /\ UNCHANGED <<storage, activeContextId, workspaceState, nextId>>

\* getPreviousBookmark() returns undefined without moving
PreviousAtStart(bookmarks, cursor) == Len(bookmarks) = 0 \/ cursor <= 0

\* getPreviousBookmark()
GetPreviousBookmark ==
    LET bookmarks == GetBookmarks
    IN  IF PreviousAtStart(bookmarks, currentBookmarkIndex)
        THEN /\ last' = [op |-> "getPreviousBookmark", arg |-> NoId, res |-> Undefined]
             /\ UNCHANGED <<storage, activeContextId, currentBookmarkIndex, workspaceState, nextId>>
        ELSE /\ currentBookmarkIndex' = currentBookmarkIndex - 1
             /\ last' = [op |-> "getPreviousBookmark", arg |-> NoId,
                         res |-> At(bookmarks, currentBookmarkIndex')]
             /\ UNCHANGED <<storage, activeContextId, workspaceState, nextId>>

----------------------------------------------------------------------------
(* The navigation commands: jumpTo(bookmark) opens the document, shows it and *)
(* then calls setCurrentBookmarkById. jumps holds the jumps started, in the   *)
(* order of their commands, each in flight or done.                           *)

\* jumpTo(bookmark) up to its first await: nothing is started for undefined
StartJump(started, bookmark) ==
    IF bookmark = Undefined
    THEN started
    ELSE Append(started, [id |-> bookmark.id, done |-> FALSE])

\* the nextBookmark command: jumpTo(bookmarkManager.getNextBookmark(), ...)
NextBookmarkCommand ==
    /\ Len(jumps) < MaxJumps
    /\ GetNextBookmark
    /\ jumps' = StartJump(jumps, last'.res)
    /\ UNCHANGED writes

\* the previousBookmark command: jumpTo(bookmarkManager.getPreviousBookmark(), ...)
PreviousBookmarkCommand ==
    /\ Len(jumps) < MaxJumps
    /\ GetPreviousBookmark
    /\ jumps' = StartJump(jumps, last'.res)
    /\ UNCHANGED writes

\* the document of the k-th jump is shown: the rest of jumpTo runs
JumpCompletes(k) ==
    /\ k \in 1..Len(jumps)
    /\ ~jumps[k].done
    /\ SetCurrentBookmarkById(jumps[k].id)
    /\ jumps' = [jumps EXCEPT ![k].done = TRUE]
    /\ UNCHANGED writes

\* a write completes; when it is the first write of a save(), the save()
\* resumes and issues the write of the active context id as it is now
WriteCompletes ==
    /\ ~Idle(writes)
    /\ \E k \in {NextWrite(writes)} :
          /\ workspaceState' = Update(workspaceState, writes[k].key, writes[k].value, FALSE)
          /\ writes' = IF writes[k].key = "bookmark-storage"
                       THEN Append([writes EXCEPT ![k].done = TRUE],
                                   Write("bookmark-active-context", activeContextId))
                       ELSE [writes EXCEPT ![k].done = TRUE]
          /\ last' = [op |-> "writeCompleted", arg |-> writes[k].key, res |-> NoId]
    /\ UNCHANGED <<storage, activeContextId, currentBookmarkIndex, nextId, jumps>>

\* the operation of the step was called without awaiting the one before: its
\* save() has issued its first write
Unawaited ==
    /\ Flushes(writes) < MaxFlushes
    /\ writes' = IssueSave(writes, storage')
    /\ UNCHANGED jumps

\* the operation of the step was called when nothing was in flight, and was
\* awaited
Awaited ==
    /\ Idle(writes)
    /\ UNCHANGED inFlight

----------------------------------------------------------------------------
(* Edit reconciliation *)

\* a content change: the replaced range (0-based lines and columns) and the
\* replacement text, a sequence of characters
Change(startLine, startChar, endLine, endChar, text) ==
    [startLine |-> startLine, startChar |-> startChar,
     endLine |-> endLine, endChar |-> endChar, text |-> text]

\* Position.isBefore
IsBefore(line1, char1, line2, char2) ==
    line1 < line2 \/ (line1 = line2 /\ char1 < char2)

\* a faulty RangeContains: a position at the very start of the range is outside
RangeContainsAfterStart(change, line) ==
    /\ IsBefore(change.startLine, change.startChar, line, 0)
    /\ ~IsBefore(change.endLine, change.endChar, line, 0)

\* change.range.contains(new vscode.Position(line, 0))
RangeContains(change, line) ==
    /\ ~IsBefore(line, 0, change.startLine, change.startChar)
    /\ ~IsBefore(change.endLine, change.endChar, line, 0)

\* (change.text.match(/\n/g) || []).length
RECURSIVE LinesAdded(_)
LinesAdded(text) ==
    IF text = <<>> THEN 0
    ELSE (IF Head(text) = "\n" THEN 1 ELSE 0) + LinesAdded(Tail(text))

LinesRemoved(change) == change.endLine - change.startLine

\* a faulty LineDelta: the removed lines are forgotten
LineDeltaAddedOnly(change) == LinesAdded(change.text)

LineDelta(change) == LinesAdded(change.text) - LinesRemoved(change)

\* a faulty ChangeAbove: every change counts, wherever it ends
ChangeAnywhere(change, bookmarkLine) == TRUE

\* a faulty ChangeAbove: a change that ends in the bookmark's line counts too
ChangeAboveOrAt(change, bookmarkLine) == change.endLine <= bookmarkLine

\* the change is entirely above the bookmark's line
ChangeAbove(change, bookmarkLine) == change.endLine < bookmarkLine

\* a faulty ApplyChange: a bookmark marked for deletion is not skipped by the
\* changes that follow, and the marks of earlier changes are dropped
ApplyChangeNoSkip(acc, change, fsPath) ==
    LET live(b)    == b.fsPath = fsPath
        shifts(b)  == live(b) /\ ChangeAbove(change, b.lineNumber - 1)
        deletes(b) == live(b) /\ ~ChangeAbove(change, b.lineNumber - 1)
                              /\ RangeContains(change, b.lineNumber - 1)
        n          == Len(acc.bookmarks)
    IN  [bookmarks |-> [i \in 1..n |->
                          IF shifts(acc.bookmarks[i])
                          THEN [acc.bookmarks[i] EXCEPT !.lineNumber = @ + LineDelta(change)]
                          ELSE acc.bookmarks[i]],
         changed   |-> acc.changed \cup {acc.bookmarks[i].id : i \in {j \in 1..n : shifts(acc.bookmarks[j])}},
         deleted   |-> {acc.bookmarks[i].id : i \in {j \in 1..n : deletes(acc.bookmarks[j])}}]

\* one content change applied to every affected bookmark not yet marked for
\* deletion; acc = [bookmarks, changed, deleted], the two sets hold ids
ApplyChange(acc, change, fsPath) ==
    LET live(b)    == b.fsPath = fsPath /\ b.id \notin acc.deleted
        shifts(b)  == live(b) /\ ChangeAbove(change, b.lineNumber - 1)
        deletes(b) == live(b) /\ ~ChangeAbove(change, b.lineNumber - 1)
                              /\ RangeContains(change, b.lineNumber - 1)
        n          == Len(acc.bookmarks)
    IN  [bookmarks |-> [i \in 1..n |->
                          IF shifts(acc.bookmarks[i])
                          THEN [acc.bookmarks[i] EXCEPT !.lineNumber = @ + LineDelta(change)]
                          ELSE acc.bookmarks[i]],
         changed   |-> acc.changed \cup {acc.bookmarks[i].id : i \in {j \in 1..n : shifts(acc.bookmarks[j])}},
         deleted   |-> acc.deleted \cup {acc.bookmarks[i].id : i \in {j \in 1..n : deletes(acc.bookmarks[j])}}]

\* for (const change of event.contentChanges), in order
RECURSIVE ApplyChanges(_, _, _)
ApplyChanges(acc, changes, fsPath) ==
    IF changes = <<>> THEN acc
    ELSE ApplyChanges(ApplyChange(acc, Head(changes), fsPath), Tail(changes), fsPath)

\* the label pass over the surviving bookmarks of the file; the document has
\* lineCount lines, each with the trimmed text lineText
Relabel(acc, fsPath, lineCount, lineText) ==
    LET stale(b) == /\ b.fsPath = fsPath
                    /\ b.id \notin acc.deleted
                    /\ b.lineNumber - 1 < lineCount
                    /\ b.label # lineText
        n        == Len(acc.bookmarks)
    IN  [bookmarks |-> [i \in 1..n |->
                          IF stale(acc.bookmarks[i])
                          THEN [acc.bookmarks[i] EXCEPT !.label = lineText]
                          ELSE acc.bookmarks[i]],
         changed   |-> acc.changed \cup {acc.bookmarks[i].id : i \in {j \in 1..n : stale(acc.bookmarks[j])}},
         deleted   |-> acc.deleted]

\* the active sequence, the changed and the deleted ids after the event
Reconciled(bookmarks, event) ==
    LET shifted == ApplyChanges([bookmarks |-> bookmarks, changed |-> {}, deleted |-> {}],
                                event.contentChanges, event.fsPath)
        kept    == [shifted EXCEPT
                      !.bookmarks = SelectSeq(shifted.bookmarks,
                                              LAMBDA b : b.id \notin shifted.deleted)]
    IN  Relabel(kept, event.fsPath, event.lineCount, event.lineText)

\* no bookmark of the active context is in the edited file
Unaffected(bookmarks, fsPath) == \A i \in 1..Len(bookmarks) : bookmarks[i].fsPath # fsPath

\* the highest line number the event leaves in the active context
MaxLineAfter(bookmarks) ==
    IF bookmarks = <<>> THEN 0
    ELSE CHOOSE m \in {bookmarks[i].lineNumber : i \in 1..Len(bookmarks)} :
            \A i \in 1..Len(bookmarks) : bookmarks[i].lineNumber <= m

\* handleTextDocumentChange(event), its save() meeting the fault; lineLimit
\* bounds the line numbers
HandleTextDocumentChangeSaving(event, lineLimit, fault) ==
    IF Unaffected(GetBookmarks, event.fsPath)
    THEN /\ fault = "none"
         /\ last' = [op |-> "handleTextDocumentChange", arg |-> event, res |-> FALSE]
         /\ UNCHANGED <<storage, activeContextId, currentBookmarkIndex, workspaceState, nextId>>
    ELSE \E r \in {Reconciled(GetBookmarks, event)} :
         /\ MaxLineAfter(r.bookmarks) <= lineLimit
         /\ storage' = IF r.deleted # {}
                       THEN SetContext(storage, activeContextId, r.bookmarks)
                       ELSE InPlace(storage, activeContextId, r.bookmarks)
         /\ IF r.changed # {} \/ r.deleted # {}
            THEN /\ workspaceState' = SaveOutcome(workspaceState, storage', activeContextId, fault)
                 /\ last' = Settled("handleTextDocumentChange", event, TRUE, fault)
            ELSE /\ fault = "none"
                 /\ UNCHANGED workspaceState
                 /\ last' = [op |-> "handleTextDocumentChange", arg |-> event, res |-> FALSE]
         /\ UNCHANGED <<activeContextId, currentBookmarkIndex, nextId>>

\* handleTextDocumentChange(event)
HandleTextDocumentChange(event, lineLimit) ==
    HandleTextDocumentChangeSaving(event, lineLimit, "none")

----------------------------------------------------------------------------
(* The persisted entries a session can start from *)

\* the entries as a Memento: each argument is <<>> (no entry) or <<value>>
Persisted(legacy, st, active) ==
    LET keys == (IF legacy = <<>> THEN {} ELSE {"bookmarks"})
                \cup (IF st = <<>> THEN {} ELSE {"bookmark-storage"})
                \cup (IF active = <<>> THEN {} ELSE {"bookmark-active-context"})
    IN  [k \in keys |->
            IF k = "bookmarks" THEN legacy[1]
            ELSE IF k = "bookmark-storage" THEN st[1]
            ELSE active[1]]

\* a storage object with one and with two contexts
OneContext(c, bookmarks) == SetContext(<<>>, c, bookmarks)
TwoContexts(c1, bookmarks1, c2, bookmarks2) ==
    SetContext(OneContext(c1, bookmarks1), c2, bookmarks2)

\* the legacy entry: missing, empty, or one bookmark of the old format
LegacyChoices ==
    { <<>>, << <<>> >>, << <<Bookmark(1, "f", 1, "x")>> >> }

\* bookmark-storage: missing, empty, populated with and without the default context
StorageChoices ==
    { <<>>,
      << <<>> >>,
      << OneContext(DEFAULT_CONTEXT, <<>>) >>,
      << OneContext("work", <<Bookmark(2, "f", 1, "x")>>) >>,
      << TwoContexts(DEFAULT_CONTEXT, <<Bookmark(2, "g", 1, "x")>>, "work", <<>>) >> }

\* bookmark-active-context: missing, or a name (dangling when not a stored context)
ActiveChoices == { <<>>, <<"default">>, <<"work">> }

PersistedStates ==
    { Persisted(l, s, a) : l \in LegacyChoices, s \in StorageChoices, a \in ActiveChoices }

\* the ids of the bookmarks of a sequence
IdsOf(bookmarks) == { bookmarks[i].id : i \in 1..Len(bookmarks) }

PersistedIds(ws) ==
    IdsOf(Get(ws, "bookmarks", <<>>))
    \cup UNION { IdsOf(Get(ws, "bookmark-storage", <<>>)[c]) :
                 c \in DOMAIN Get(ws, "bookmark-storage", <<>>) }

\* uuidv4() never returns an id that exists already
FirstFreshId(ws) ==
    1 + (CHOOSE m \in PersistedIds(ws) \cup {0} : \A i \in PersistedIds(ws) : i <= m)

\* new BookmarkManager(context): the constructor runs load()
Construct(ws) ==
    LET loaded == Load(ws)
    IN  /\ storage = loaded.storage
        /\ activeContextId = loaded.active
        /\ currentBookmarkIndex = -1
        /\ workspaceState = loaded.ws
        /\ nextId = FirstFreshId(ws)
        /\ last = [op |-> "load", arg |-> ws, res |-> NoId]
        /\ jumps = <<>>
        /\ writes = <<>>

Init == \E ws \in PersistedStates : Construct(ws)

\* the window is reloaded: a new BookmarkManager is constructed from the
\* persisted entries; uuidv4() still never repeats an id
Reload ==
    \E loaded \in {Load(workspaceState)} :
        /\ storage' = loaded.storage
        /\ activeContextId' = loaded.active
        /\ currentBookmarkIndex' = -1
        /\ workspaceState' = loaded.ws
        /\ last' = [op |-> "load", arg |-> workspaceState, res |-> NoId]
        /\ UNCHANGED nextId

----------------------------------------------------------------------------
(* The calls the editor integration makes *)

Ids == 1..MaxId

Event(fsPath, contentChanges, lineCount, lineText) ==
    [fsPath |-> fsPath, contentChanges |-> contentChanges,
     lineCount |-> lineCount, lineText |-> lineText]

\* Spec: the whole store. Every bookmark is added at line 1; an event replaces
\* line 0 up to the start of line 1, or types inside line 0.
StoreEvents ==
    { Event(f, <<c>>, 1, "x") :
        f \in Files, c \in { Change(0, 0, 1, 0, <<>>), Change(0, 1, 0, 1, <<"x">>) } }

Next ==
    \/ GetActiveContextId /\ UNCHANGED inFlight
    \/ GetAllContextIds /\ UNCHANGED inFlight
    \/ \E name \in CtxInputs : CreateContext(name) /\ UNCHANGED inFlight
    \/ \E name \in CtxInputs : SwitchContext(name) /\ UNCHANGED inFlight
    \/ \E name \in CtxInputs : DeleteContext(name) /\ UNCHANGED inFlight
    \/ AddBookmark("f", 1, "x") /\ UNCHANGED inFlight
    \/ \E id \in Ids : RemoveBookmark(id) /\ UNCHANGED inFlight
    \/ ClearAllBookmarks /\ UNCHANGED inFlight
    \/ \E d \in Ids, t \in Ids \cup {NoId} : ReorderBookmarks(d, t) /\ UNCHANGED inFlight
    \/ \E event \in StoreEvents : HandleTextDocumentChange(event, MaxLine) /\ UNCHANGED inFlight
    \/ \E id \in Ids \cup {NoId} : SetCurrentBookmarkById(id) /\ UNCHANGED inFlight
    \/ GetCurrentBookmark /\ UNCHANGED inFlight
    \/ GetNextBookmark /\ UNCHANGED inFlight
    \/ GetPreviousBookmark /\ UNCHANGED inFlight
    \/ Reload /\ UNCHANGED inFlight

Spec == Init /\ [][Next]_vars

\* SpecNav: bookmarks and the cursor. Bookmarks are added to either file, so an
\* event can delete some bookmarks of the active context and keep the others.
NavPersisted ==
    { Persisted(<<>>, <<>>, <<>>),
      Persisted(<<>>,
                << TwoContexts(DEFAULT_CONTEXT, <<>>, "work", <<Bookmark(1, "f", 1, "x")>>) >>,
                <<"default">>) }

InitNav == \E ws \in NavPersisted : Construct(ws)

NextNav ==
    \/ \E name \in CtxNames : SwitchContext(name) /\ UNCHANGED inFlight
    \/ \E f \in Files : AddBookmark(f, 1, "x") /\ UNCHANGED inFlight
    \/ \E id \in Ids : RemoveBookmark(id) /\ UNCHANGED inFlight
    \/ ClearAllBookmarks /\ UNCHANGED inFlight
    \/ \E d \in Ids, t \in Ids \cup {NoId} : ReorderBookmarks(d, t) /\ UNCHANGED inFlight
    \/ \E event \in StoreEvents : HandleTextDocumentChange(event, MaxLine) /\ UNCHANGED inFlight
    \/ \E id \in Ids \cup {NoId} : SetCurrentBookmarkById(id) /\ UNCHANGED inFlight
    \/ GetCurrentBookmark /\ UNCHANGED inFlight
    \/ GetNextBookmark /\ UNCHANGED inFlight
    \/ GetPreviousBookmark /\ UNCHANGED inFlight

SpecNav == InitNav /\ [][NextNav]_vars

\* SpecEdit: reconciliation. The store starts with bookmarks on lines 5 and 10
\* of one file, or with bookmarks of two files in two contexts.
EditPersisted ==
    { Persisted(<<>>,
                << OneContext(DEFAULT_CONTEXT,
                              <<Bookmark(1, "f", 5, "x"), Bookmark(2, "f", 10, "x")>>) >>,
                <<"default">>),
      Persisted(<<>>,
                << TwoContexts(DEFAULT_CONTEXT,
                               <<Bookmark(1, "f", 3, "x"), Bookmark(2, "g", 3, "x")>>,
                               "work", <<Bookmark(3, "f", 3, "x")>>) >>,
                <<"default">>) }

\* replacement texts: nothing, one line break, two lines
Texts == { <<>>, <<"\n">>, <<"x", "\n", "x", "\n">> }

\* the content changes over lines 0..MaxChangeLine that replace at most MaxSpan
\* line breaks: whole lines (both ends at column 0), or from inside the start
\* line to inside the end line (both ends at column 1)
Changes ==
    { Change(l[1], col, l[2], col, t) :
        l \in { p \in (0..MaxChangeLine) \X (0..MaxChangeLine) :
                  p[1] <= p[2] /\ p[2] - p[1] <= MaxSpan },
        col \in {0, 1},
        t \in Texts }

\* typing inside line 0: no bookmark below line 1 moves
TypeInFirstLine == Change(0, 1, 0, 1, <<"x">>)

\* document-change events with one content change; every line of the document
\* after the change has the same trimmed text. Changes of file f with the
\* labels as they are, and typing in either file in a document of 1 or of
\* MaxLine lines whose text may differ from the labels.
EditEvents ==
    { Event("f", <<c>>, MaxLine, "x") : c \in Changes }
    \cup { Event(f, <<TypeInFirstLine>>, n, t) : f \in Files, n \in {1, MaxLine}, t \in Labels }

InitEdit == \E ws \in EditPersisted : Construct(ws)

NextEdit ==
    \/ \E event \in EditEvents : HandleTextDocumentChange(event, MaxLine) /\ UNCHANGED inFlight
    \/ GetCurrentBookmark /\ UNCHANGED inFlight

SpecEdit == InitEdit /\ [][NextEdit]_vars

\* SpecPersist: writes that can be rejected. Every operation that saves meets
\* each fault; a reload hydrates a new manager from what was persisted.
InitPersist == Construct(Persisted(<<>>, <<>>, <<>>))

NextPersist ==
    \/ \E name \in CtxNames, fault \in Faults : CreateContextSaving(name, fault)
          /\ UNCHANGED inFlight
    \/ \E name \in CtxNames, fault \in Faults : SwitchContextSaving(name, fault)
          /\ UNCHANGED inFlight
    \/ \E name \in CtxNames, fault \in Faults : DeleteContextSaving(name, fault)
          /\ UNCHANGED inFlight
    \/ \E fault \in Faults : nextId <= MaxFaultyId /\ AddBookmarkSaving("f", 1, "x", fault)
          /\ UNCHANGED inFlight
    \/ \E id \in 1..MaxFaultyId, fault \in Faults : RemoveBookmarkSaving(id, fault)
          /\ UNCHANGED inFlight
    \/ \E fault \in Faults : ClearAllBookmarksSaving(fault) /\ UNCHANGED inFlight
    \/ \E d \in 1..MaxFaultyId, fault \in Faults : ReorderBookmarksSaving(d, NoId, fault)
          /\ UNCHANGED inFlight
    \/ \E fault \in Faults :
          HandleTextDocumentChangeSaving(Event("f", <<Change(0, 0, 1, 0, <<>>)>>, 1, "x"),
                                         MaxLine, fault) /\ UNCHANGED inFlight
    \/ Reload /\ UNCHANGED inFlight

SpecPersist == InitPersist /\ [][NextPersist]_vars

\* SpecToggle: the add command. Bookmarks of the default context are
\* toggled on two lines of each file; addBookmark can put a second bookmark
\* on a line.
ToggleLines == {1, 2}

InitToggle == Construct(Persisted(<<>>, <<>>, <<>>))

NextToggle ==
    \/ \E f \in Files, l \in ToggleLines : ToggleBookmark(f, l, "y") /\ UNCHANGED inFlight
    \/ AddBookmark("f", 1, "x") /\ UNCHANGED inFlight
    \/ \E id \in Ids : RemoveBookmark(id) /\ UNCHANGED inFlight
    \/ \E d \in Ids : ReorderBookmarks(d, NoId) /\ UNCHANGED inFlight
    \/ \E id \in Ids : SetCurrentBookmarkById(id) /\ UNCHANGED inFlight
    \/ GetCurrentBookmark /\ UNCHANGED inFlight

SpecToggle == InitToggle /\ [][NextToggle]_vars

\* SpecBatch: events with one or two content changes. The store starts with
\* bookmarks that were added on lines 1, 2 and 4 of file f. A change puts an
\* empty line in before line l, takes line l out, or joins line l + 1 to
\* line l, for l in 0..MaxBatchLine.
BatchPersisted ==
    Persisted(<<>>,
              << OneContext(DEFAULT_CONTEXT,
                            <<Bookmark(1, "f", 1, "x"), Bookmark(2, "f", 2, "x"),
                              Bookmark(3, "f", 4, "x")>>) >>,
              <<"default">>)

BatchChanges ==
    UNION { { Change(l, 0, l, 0, <<"\n">>),
              Change(l, 0, l + 1, 0, <<>>),
              Change(l, 1, l + 1, 1, <<>>) } : l \in 0..MaxBatchLine }

BatchEvents ==
    { Event("f", <<c>>, MaxLine, "x") : c \in BatchChanges }
    \cup { Event("f", <<c1, c2>>, MaxLine, "x") : c1, c2 \in BatchChanges }

\* the bookmarks are followed down to this line
BatchLineLimit == MaxBatchLine + 3

InitBatch == Construct(BatchPersisted)

NextBatch ==
    \/ \E event \in BatchEvents : HandleTextDocumentChange(event, BatchLineLimit)
          /\ UNCHANGED inFlight
    \/ GetCurrentBookmark /\ UNCHANGED inFlight

SpecBatch == InitBatch /\ [][NextBatch]_vars

\* SpecJump: the navigation commands over three bookmarks of two files. A
\* jump completes when its document is shown, which can be before or after
\* the jump of a later command; a bookmark can be removed meanwhile.
JumpPersisted ==
    Persisted(<<>>,
              << OneContext(DEFAULT_CONTEXT,
                            <<Bookmark(1, "f", 1, "x"), Bookmark(2, "g", 1, "x"),
                              Bookmark(3, "f", 2, "x")>>) >>,
              <<"default">>)

InitJump == Construct(JumpPersisted)

NextJump ==
    \/ NextBookmarkCommand
    \/ PreviousBookmarkCommand
    \/ \E k \in 1..MaxJumps : JumpCompletes(k)
    \/ \E id \in Ids : RemoveBookmark(id) /\ UNCHANGED inFlight

SpecJump == InitJump /\ [][NextJump]_vars

\* SpecFlush: mutating operations issued back to back. An operation is
\* awaited, or the next one is called while its writes are in flight.
FlushPersisted ==
    Persisted(<<>>,
              << TwoContexts(DEFAULT_CONTEXT, <<>>, "work", <<Bookmark(1, "f", 1, "x")>>) >>,
              <<"default">>)

InitFlush == Construct(FlushPersisted)

NextFlush ==
    \/ \E name \in CtxNames : SwitchContextSaving(name, "pending") /\ Unawaited
    \/ \E name \in CtxNames : SwitchContext(name) /\ Awaited
    \/ nextId <= MaxFaultyId /\ AddBookmarkSaving("f", 1, "x", "pending") /\ Unawaited
    \/ \E id \in 1..MaxFaultyId : RemoveBookmarkSaving(id, "pending") /\ Unawaited
    \/ \E id \in 1..MaxFaultyId : RemoveBookmark(id) /\ Awaited
    \/ \E name \in CtxNames : DeleteContextSaving(name, "pending") /\ Unawaited
    \/ \E name \in CtxNames : CreateContextSaving(name, "pending") /\ Unawaited
    \/ WriteCompletes

SpecFlush == InitFlush /\ [][NextFlush]_vars

\* SpecRename: the context commands with renameContext. A context can be
\* renamed to itself, to a free name, to the empty name or to a taken name.
RenameInputs == CtxInputs \cup {"home"}

InitRename == \E ws \in NavPersisted : Construct(ws)

NextRename ==
    \/ \E oldName, newName \in RenameInputs : RenameContext(oldName, newName) /\ UNCHANGED inFlight
    \/ \E name \in CtxNames : CreateContext(name) /\ UNCHANGED inFlight
    \/ \E name \in RenameInputs : SwitchContext(name) /\ UNCHANGED inFlight
    \/ \E name \in RenameInputs : DeleteContext(name) /\ UNCHANGED inFlight
    \/ AddBookmark("f", 1, "x") /\ UNCHANGED inFlight
    \/ GetNextBookmark /\ UNCHANGED inFlight
    \/ GetAllContextIds /\ UNCHANGED inFlight

SpecRename == InitRename /\ [][NextRename]_vars

----------------------------------------------------------------------------
(* What the claims about one call compare: the active sequence before and   *)
(* after the step                                                           *)

Before == Bookmarks(storage, activeContextId)
After == Bookmarks(storage', activeContextId')

AllIds(st) == UNION { IdsOf(st[c]) : c \in DOMAIN st }

\* the ids of a sequence, in order
IdSeq(bookmarks) == [i \in 1..Len(bookmarks) |-> bookmarks[i].id]

\* 1-based position of the id in a sequence that holds it
Pos(bookmarks, id) == CHOOSE i \in 1..Len(bookmarks) : bookmarks[i].id = id

\* the bookmarks other than id keep their relative order from a to b
OthersKeepOrder(a, b, id) ==
    \A i, j \in 1..Len(a) :
        (/\ i < j
         /\ a[i].id # id
         /\ a[j].id # id
         /\ a[i].id \in IdsOf(b)
         /\ a[j].id \in IdsOf(b)) => Pos(b, a[i].id) < Pos(b, a[j].id)

----------------------------------------------------------------------------
(* C1: a context always exists and the active id names one *)

----------------------------------------------------------------------------
(* C8: the outcomes of deleteContext *)

\* the outcome C8 gives for deleteContext(name)
C8_Outcome(st, active, name) ==
    IF name \notin DOMAIN st THEN "not_found"
    ELSE IF DOMAIN st = {name} THEN "last"
    ELSE IF name = active THEN "active"
    ELSE "success"

\* C8: deleteContext(name) returns not_found when name is absent, last when
\* name is the sole context, active when name is the active context and others
\* exist, success otherwise; only success removes the context, every other
\* outcome changes nothing.
C8_DeleteOutcomes ==
    [][last'.op = "deleteContext" =>
         /\ last'.res = C8_Outcome(storage, activeContextId, last'.arg)
         /\ IF last'.res = "success"
            THEN /\ DOMAIN storage' = DOMAIN storage \ {last'.arg}
                 /\ \A c \in DOMAIN storage' : storage'[c] = storage[c]
            ELSE storage' = storage
         /\ activeContextId' = activeContextId
         /\ currentBookmarkIndex' = currentBookmarkIndex]_vars

----------------------------------------------------------------------------
(* C2: addBookmark appends with a fresh id; ids stay distinct, order is kept *)

C2_DistinctIds(st) ==
    \A c \in DOMAIN st : \A i, j \in 1..Len(st[c]) : i # j => st[c][i].id # st[c][j].id

C2_Appends ==
    last'.op = "addBookmark" =>
        /\ Len(After) = Len(Before) + 1
        /\ SubSeq(After, 1, Len(Before)) = Before
        /\ After[Len(After)].id \notin AllIds(storage)
        /\ After[Len(After)].fsPath = last'.arg.fsPath
        /\ After[Len(After)].lineNumber = last'.arg.lineNumber
        /\ After[Len(After)].label = last'.arg.label
        /\ currentBookmarkIndex' = currentBookmarkIndex
        /\ activeContextId' = activeContextId

\* in every context, two bookmarks that both stay keep their order, unless the
\* step is a reorder that drags one of them
C2_OrderKept ==
    \A c \in DOMAIN storage \cap DOMAIN storage' :
        OthersKeepOrder(storage[c], storage'[c],
                        IF last'.op = "reorderBookmarks" THEN last'.arg.dragged ELSE NoId)

\* C2: addBookmark appends the new bookmark at the end of the active sequence
\* with a fresh id and leaves the cursor alone; through add, remove, reorder,
\* clear and reconciliation the ids of a context stay pairwise distinct and
\* bookmarks that are not dragged keep their insertion order.
C2_AddAppendsFresh ==
    /\ C2_DistinctIds(storage)
    /\ [][C2_Appends /\ C2_OrderKept /\ C2_DistinctIds(storage')]_vars

\* a bookmark added behind two that were reordered
C2_Witness ==
    /\ last.op = "addBookmark"
    /\ IdSeq(GetBookmarks) = <<2, 1, 3>>

----------------------------------------------------------------------------
(* C3: getNextBookmark *)

\* C3: getNextBookmark never wraps and never goes back: with the cursor at c
\* on n bookmarks it returns none and leaves the cursor when n = 0 or
\* c >= n - 1, and otherwise moves the cursor to c + 1 and returns the
\* bookmark there; so from the unset cursor successive calls return the
\* bookmarks 0 .. n-1 and then none.
C3_NextMonotone ==
    [][last'.op = "getNextBookmark" =>
         /\ storage' = storage
         /\ activeContextId' = activeContextId
         /\ currentBookmarkIndex >= -1
         /\ IF Len(Before) = 0 \/ currentBookmarkIndex >= Len(Before) - 1
            THEN /\ last'.res = Undefined
                 /\ currentBookmarkIndex' = currentBookmarkIndex
            ELSE /\ currentBookmarkIndex' = currentBookmarkIndex + 1
                 /\ last'.res = Before[currentBookmarkIndex + 2]
                 /\ last'.res # Undefined]_vars

\* the call after the third of three bookmarks was returned
C3_Witness ==
    /\ last.op = "getNextBookmark"
    /\ last.res = Undefined
    /\ Len(GetBookmarks) = 3
    /\ currentBookmarkIndex = 2

----------------------------------------------------------------------------
(* C4: getPreviousBookmark *)

\* C4: getPreviousBookmark returns none and leaves the cursor when the
\* sequence is empty or the cursor is <= 0; otherwise it decrements the cursor
\* and returns the bookmark at the new index, a real bookmark.
C4_PreviousReturnsBookmark ==
    [][last'.op = "getPreviousBookmark" =>
         IF Len(Before) = 0 \/ currentBookmarkIndex <= 0
         THEN /\ last'.res = Undefined
              /\ currentBookmarkIndex' = currentBookmarkIndex
         ELSE /\ currentBookmarkIndex' = currentBookmarkIndex - 1
              /\ last'.res = At(Before, currentBookmarkIndex - 1)
              /\ last'.res # Undefined]_vars

----------------------------------------------------------------------------
(* C5, C6: removeBookmark *)

\* C5: removeBookmark(id) of an id of the active context removes that bookmark
\* alone and keeps the order of the others; the current bookmark, if it is
\* another one, is the same after the call, and if it is the removed one there
\* is no current bookmark after the call.
C5_RemoveKeepsCurrent ==
    [][(last'.op = "removeBookmark" /\ last'.arg \in IdsOf(Before)) =>
         LET id      == last'.arg
             p       == Pos(Before, id)
             current == CurrentBookmark(Before, currentBookmarkIndex)
             after   == CurrentBookmark(After, currentBookmarkIndex')
         IN  /\ activeContextId' = activeContextId
             /\ Len(After) = Len(Before) - 1
             /\ \A k \in 1..Len(After) :
                    After[k] = IF k < p THEN Before[k] ELSE Before[k + 1]
             /\ after.id # id
             /\ (current # Undefined /\ current.id # id) => after = current
             /\ current.id = id => after = Undefined]_vars

\* a bookmark in front of the current one was removed
C5_Witness ==
    /\ last.op = "removeBookmark"
    /\ last.arg = 1
    /\ IdSeq(GetBookmarks) = <<2, 3>>
    /\ currentBookmarkIndex = 1

\* C6: removeBookmark(id) of an id that is not in the active context changes
\* nothing: not the sequences, not the active id, not the cursor.
C6_RemoveAbsentNoOp ==
    [][(last'.op = "removeBookmark" /\ last'.arg \notin IdsOf(Before)) =>
         /\ storage' = storage
         /\ activeContextId' = activeContextId
         /\ currentBookmarkIndex' = currentBookmarkIndex]_vars

----------------------------------------------------------------------------
(* C7: reorderBookmarks *)

\* what C7 says of a reorder step; selfIsTarget tells whether a target equal
\* to the dragged bookmark counts as a target the dragged one is put before
C7_Reorder(selfIsTarget) ==
    last'.op = "reorderBookmarks" =>
        LET d == last'.arg.dragged
            t == last'.arg.target
        IN  IF d \notin IdsOf(Before)
            THEN /\ storage' = storage
                 /\ currentBookmarkIndex' = currentBookmarkIndex
            ELSE /\ Len(After) = Len(Before)
                 /\ \A i \in 1..Len(Before) : \E j \in 1..Len(After) : After[j] = Before[i]
                 /\ OthersKeepOrder(Before, After, d)
                 /\ d \in IdsOf(After)
                 /\ currentBookmarkIndex' = Pos(After, d) - 1
                 /\ IF t # NoId /\ t \in IdsOf(Before) /\ (selfIsTarget \/ t # d)
                    THEN /\ Pos(After, d) < Len(After)
                         /\ After[Pos(After, d) + 1].id = t
                    ELSE Pos(After, d) = Len(After)

\* C7 as claimed: the dragged bookmark sits immediately before the target
\* whenever the target id is found in the active context, and is last when
\* the target is none or not found.
C7_BeforeTargetWheneverFound == [][C7_Reorder(TRUE)]_vars

\* C7: reorderBookmarks(draggedId, targetId) with draggedId in the active
\* context yields a permutation in which the dragged bookmark sits immediately
\* before the target when the target is another bookmark of the context, and
\* is last when the target is none, not found, or the dragged bookmark itself;
\* the others keep their order and the cursor is the dragged bookmark's new
\* index. With draggedId not found, sequence and cursor are unchanged.
C7_ReorderBeforeOtherTarget == [][C7_Reorder(FALSE)]_vars

\* reorder(A, C) on [A, B, C] gave [B, A, C] with the cursor on A
C7_Witness ==
    /\ last.op = "reorderBookmarks"
    /\ last.arg = [dragged |-> 1, target |-> 3]
    /\ IdSeq(GetBookmarks) = <<2, 1, 3>>
    /\ currentBookmarkIndex = 1



----------------------------------------------------------------------------
(* C9, C10: one content change *)

\* the step reconciles an event with one content change
SingleChange ==
    /\ last'.op = "handleTextDocumentChange"
    /\ Len(last'.arg.contentChanges) = 1

\* line breaks in the replacement text minus line breaks in the replaced range
ClaimedDelta(change) ==
    Cardinality({ i \in 1..Len(change.text) : change.text[i] = "\n" })
    - (change.endLine - change.startLine)

\* the bookmark is of the edited file and below the end line of the change
Below(b, fsPath, change) == b.fsPath = fsPath /\ b.lineNumber - 1 > change.endLine

\* the bookmark is still in the active sequence, delta lines further down
ShiftedBy(b, delta) ==
    \E j \in 1..Len(After) :
        /\ After[j].id = b.id
        /\ After[j].lineNumber = b.lineNumber + delta

\* (line, 0) lies in the replaced range, both ends included
Covers(change, line) ==
    /\ change.startLine < line \/ (change.startLine = line /\ change.startChar = 0)
    /\ line < change.endLine \/ (line = change.endLine /\ change.endChar >= 0)

\* C9: after one content change of a file, every bookmark of that file in the
\* active context whose 0-based line is greater than the end line of the change
\* has moved by lineDelta = line breaks in the text - (end line - start line),
\* and the call reports changed.
C9_ShiftBelowChange ==
    [][SingleChange =>
         \A i \in 1..Len(Before) :
             Below(Before[i], last'.arg.fsPath, last'.arg.contentChanges[1]) =>
                 /\ ShiftedBy(Before[i], ClaimedDelta(last'.arg.contentChanges[1]))
                 /\ last'.res = TRUE]_vars

\* bookmarks on lines 5 and 10, two lines inserted at line 1: now 7 and 12
C9_Witness ==
    /\ last.op = "handleTextDocumentChange"
    /\ last.arg.fsPath = "f"
    /\ last.arg.contentChanges = <<Change(1, 0, 1, 0, <<"x", "\n", "x", "\n">>)>>
    /\ last.res = TRUE
    /\ GetBookmarks = <<Bookmark(1, "f", 7, "x"), Bookmark(2, "f", 12, "x")>>

\* C10: after one content change whose range includes (bookmarkLine, 0) of a
\* bookmark of the edited file, that bookmark is gone from the active sequence,
\* the bookmarks of the file below the end line have moved by lineDelta, and
\* the call reports changed.
C10_DeleteCoveredLine ==
    [][SingleChange =>
         \A i \in 1..Len(Before) :
             (/\ Before[i].fsPath = last'.arg.fsPath
              /\ Covers(last'.arg.contentChanges[1], Before[i].lineNumber - 1)) =>
                 /\ Before[i].id \notin IdsOf(After)
                 /\ last'.res = TRUE
                 /\ \A k \in 1..Len(Before) :
                        Below(Before[k], last'.arg.fsPath, last'.arg.contentChanges[1]) =>
                            ShiftedBy(Before[k], ClaimedDelta(last'.arg.contentChanges[1]))]_vars

\* bookmarks on lines 5 and 10, lines 4..6 replaced: the one of line 10 is left
C10_Witness ==
    /\ last.op = "handleTextDocumentChange"
    /\ last.arg.fsPath = "f"
    /\ last.arg.contentChanges = <<Change(4, 0, 6, 0, <<>>)>>
    /\ last.res = TRUE
    /\ GetBookmarks = <<Bookmark(2, "f", 8, "x")>>

----------------------------------------------------------------------------
(* C11: changes above and below a bookmark *)

\* the replaced and the inserted text lie on lines above the line: the range
\* ends above it, or ends at its column 0 with whole lines put in
EntirelyAbove(change, line) ==
    \/ change.endLine < line
    \/ /\ change.endLine = line
       /\ change.endChar = 0
       /\ change.text = <<>> \/ change.text[Len(change.text)] = "\n"

\* the bookmark is in the active sequence after the step, on the same line
SameLine(b) ==
    \E j \in 1..Len(After) :
        /\ After[j].id = b.id
        /\ After[j].lineNumber = b.lineNumber

\* C11: a content change that lies entirely on lines above a bookmark's line,
\* a whole-line deletion or insertion ending at column 0 of that line
\* included, shifts the bookmark by lineDelta and does not delete it; a change
\* that starts on a line after the bookmark's line neither deletes nor moves it.
C11_OnlyOwnLineDeletes ==
    [][SingleChange =>
         \A i \in 1..Len(Before) :
             Before[i].fsPath = last'.arg.fsPath =>
                 LET c    == last'.arg.contentChanges[1]
                     line == Before[i].lineNumber - 1
                 IN  /\ EntirelyAbove(c, line) => ShiftedBy(Before[i], ClaimedDelta(c))
                     /\ c.startLine > line => SameLine(Before[i])]_vars

----------------------------------------------------------------------------
(* C12: bookmarks follow their logical line *)

\* The document before a change, as a sequence of characters that remember
\* where they come from: MaxLine lines of two characters and a line break.
\* A character of the replacement text has line -1.
Char(line, col, isBreak) == [line |-> line, col |-> col, isBreak |-> isBreak]

DocumentBefore ==
    [i \in 1..(3 * MaxLine) |-> Char((i - 1) \div 3, (i - 1) % 3, (i - 1) % 3 = 2)]

\* number of characters in front of position (line, col)
Offset(line, col) == 3 * line + col

\* the document after the change replaced its range by its text
DocumentAfter(change) ==
    SubSeq(DocumentBefore, 1, Offset(change.startLine, change.startChar))
    \o [i \in 1..Len(change.text) |-> Char(-1, -1, change.text[i] = "\n")]
    \o SubSeq(DocumentBefore, Offset(change.endLine, change.endChar) + 1,
              Len(DocumentBefore))

\* the 0-based line of the i-th character of a document
LineOf(doc, i) == Cardinality({ k \in 1..(i - 1) : doc[k].isBreak })

\* the 1-based line number of the line of doc that starts with the character
\* that started the line of DocumentBefore; 0 when no line of doc starts with it
FollowedLine(doc, line) ==
    LET starts == { i \in 1..Len(doc) :
                      /\ doc[i] = Char(line, 0, FALSE)
                      /\ i = 1 \/ doc[i - 1].isBreak }
    IN  IF starts = {} THEN 0 ELSE LineOf(doc, CHOOSE i \in starts : TRUE) + 1

\* C12: after one content change of a file, every bookmark of that file that
\* is still in the active sequence has the line number of the line that now
\* starts where the bookmark's line started before the change.
C12_FollowsLogicalLine ==
    [][SingleChange =>
         \A doc \in {DocumentAfter(last'.arg.contentChanges[1])} :
             \A i \in 1..Len(Before) : \A j \in 1..Len(After) :
                 (/\ Before[i].fsPath = last'.arg.fsPath
                  /\ After[j].id = Before[i].id) =>
                     After[j].lineNumber = FollowedLine(doc, Before[i].lineNumber - 1)]_vars

\* the bookmarks of lines 5 and 10 after a line break was put into line 5
\* behind its first character and line 6 was joined to it: 5 and 10 again
C12_Witness ==
    /\ last.op = "handleTextDocumentChange"
    /\ last.arg.fsPath = "f"
    /\ last.arg.contentChanges = <<Change(4, 1, 5, 1, <<"\n">>)>>
    /\ GetBookmarks = <<Bookmark(1, "f", 5, "x"), Bookmark(2, "f", 10, "x")>>

----------------------------------------------------------------------------
(* C13: the cursor when reconciliation deletes bookmarks *)

\* C13: when handleTextDocumentChange deletes bookmarks, a current bookmark
\* that survives is still the current bookmark afterwards, and when the current
\* bookmark was deleted there is none afterwards.
C13_CursorFollowsDeletion ==
    [][(last'.op = "handleTextDocumentChange" /\ Len(After) < Len(Before)) =>
         LET current == CurrentBookmark(Before, currentBookmarkIndex)
             after   == CurrentBookmark(After, currentBookmarkIndex')
         IN  IF current.id \in IdsOf(After)
             THEN after.id = current.id
             ELSE after = Undefined]_vars

----------------------------------------------------------------------------
(* C14, C15: switchContext and createContext *)

----------------------------------------------------------------------------
(* C16, C17, C18: hydration and flushing *)

\* the persisted entries hold exactly the store st with the active id
PersistedIs(ws, st, active) ==
    /\ Has(ws, "bookmark-storage")
    /\ Has(ws, "bookmark-active-context")
    /\ ws["bookmark-storage"] = st
    /\ ws["bookmark-active-context"] = active

\* the entries held a non-empty legacy sequence
HasLegacy(ws) == Has(ws, "bookmarks") /\ Len(ws["bookmarks"]) > 0

\* C16: after hydration from entries whose legacy entry `bookmarks` holds a
\* non-empty sequence, the store is the default context with exactly that
\* sequence, the default context is active, the legacy entry is gone and the
\* persisted entries hold the store; a second hydration does not migrate and
\* yields the same store and the same entries.
C16_MigratesOnce ==
    (last.op = "load" /\ HasLegacy(last.arg)) =>
        /\ storage = OneContext(DEFAULT_CONTEXT, last.arg["bookmarks"])
        /\ activeContextId = DEFAULT_CONTEXT
        /\ ~Has(workspaceState, "bookmarks")
        /\ PersistedIs(workspaceState, storage, activeContextId)
        /\ Load(workspaceState) =
              [storage |-> storage, active |-> activeContextId, ws |-> workspaceState]

\* hydration found a legacy sequence next to a populated bookmark-storage
C16_Witness ==
    /\ last.op = "load"
    /\ HasLegacy(last.arg)
    /\ Has(last.arg, "bookmark-storage")
    /\ last.arg["bookmark-storage"] = OneContext("work", <<Bookmark(2, "f", 1, "x")>>)
    /\ storage = OneContext(DEFAULT_CONTEXT, <<Bookmark(1, "f", 1, "x")>>)

\* C17: in every state the store reaches with its writes completed, a store
\* hydrated from the persisted entries has the same context ids, the same
\* bookmark records in the same order in each context and the same active
\* context id, and its cursor is unset.
C17_RoundTrip ==
    /\ Load(workspaceState).storage = storage
    /\ Load(workspaceState).active = activeContextId
    /\ [][last'.op = "load" =>
            /\ storage' = storage
            /\ activeContextId' = activeContextId
            /\ currentBookmarkIndex' = -1]_vars

\* a reload that found two contexts with bookmarks and the second one active
C17_Witness ==
    /\ last.op = "load"
    /\ HasLegacy(last.arg) = FALSE
    /\ activeContextId = "work"
    /\ DOMAIN storage = {"default", "work"}
    /\ Len(storage["default"]) = 1
    /\ Len(storage["work"]) = 2
    /\ nextId > MaxId

\* the call of the step completed a save()
Flushing ==
    /\ "res" \in DOMAIN last'
    /\ \/ last'.op \in {"addBookmark", "removeBookmark", "clearAllBookmarks"}
       \/ last'.op \in {"createContext", "switchContext", "handleTextDocumentChange"}
          /\ last'.res = TRUE
       \/ last'.op = "deleteContext" /\ last'.res = "success"
       \/ last'.op = "reorderBookmarks" /\ last'.arg.dragged \in IdsOf(Before)

\* C18: after every mutating operation that completed (createContext,
\* switchContext, deleteContext, addBookmark, removeBookmark,
\* clearAllBookmarks, reorderBookmarks, and a handleTextDocumentChange that
\* reports changed) the persisted bookmark-storage and bookmark-active-context
\* equal the mapping and the active id in memory, and no operation changes
\* the mapping or the active id without that.
C18_FlushedAfterMutation ==
    [][(last'.op # "load"
        /\ (Flushing \/ storage' # storage \/ activeContextId' # activeContextId)) =>
            PersistedIs(workspaceState', storage', activeContextId')]_vars

\* a document change that deleted the bookmark of the edited file was flushed
C18_Witness ==
    /\ last.op = "handleTextDocumentChange"
    /\ last.res = TRUE
    /\ last.arg.fsPath = "f"
    /\ GetBookmarks = <<Bookmark(2, "g", 1, "x")>>
    /\ PersistedIs(workspaceState, storage, activeContextId)

----------------------------------------------------------------------------
(* C19: a rejected write *)

\* the call ended with the rejection of a write
Threw(l) == "threw" \in DOMAIN l

\* the call l again, with every write succeeding
Succeeding(l) ==
    \/ l.op = "createContext" /\ CreateContextSaving(l.arg, "none")
    \/ l.op = "switchContext" /\ SwitchContextSaving(l.arg, "none")
    \/ l.op = "deleteContext" /\ DeleteContextSaving(l.arg, "none")
    \/ l.op = "addBookmark"
       /\ AddBookmarkSaving(l.arg.fsPath, l.arg.lineNumber, l.arg.label, "none")
    \/ l.op = "removeBookmark" /\ RemoveBookmarkSaving(l.arg, "none")
    \/ l.op = "clearAllBookmarks" /\ ClearAllBookmarksSaving("none")
    \/ l.op = "reorderBookmarks"
       /\ ReorderBookmarksSaving(l.arg.dragged, l.arg.target, "none")
    \/ l.op = "handleTextDocumentChange"
       /\ HandleTextDocumentChangeSaving(l.arg, MaxLine, "none")

\* C19: when a write of a mutating operation is rejected, the caller gets the
\* rejection, the store in memory is the one the operation produces when its
\* writes succeed, and the next operation that completes a save leaves the
\* persisted entries equal to the store in memory, whichever of the two writes
\* was rejected before.
C19_RecoversAfterRejectedWrite ==
    [][/\ Threw(last') =>
            \E l \in {last'}, st \in {storage'}, a \in {activeContextId'},
               c \in {currentBookmarkIndex'} :
                ENABLED (/\ Succeeding(l)
                         /\ storage' = st
                         /\ activeContextId' = a
                         /\ currentBookmarkIndex' = c)
       /\ (/\ last'.op # "load"
           /\ storage' # storage \/ activeContextId' # activeContextId
           /\ ~PersistedIs(workspaceState', storage', activeContextId')) => Threw(last')
       /\ Flushing => PersistedIs(workspaceState', storage', activeContextId')]_vars

\* the switch to a context with a bookmark whose second write was rejected:
\* the mapping is persisted, the active id is not
C19_Witness ==
    /\ last.op = "switchContext"
    /\ Threw(last)
    /\ last.threw = "active"
    /\ activeContextId = "work"
    /\ Len(storage["work"]) = 1
    /\ PersistedIs(workspaceState, storage, DEFAULT_CONTEXT)

----------------------------------------------------------------------------
(* C20: toggleBookmark *)

\* the bookmark is of the file and on the line the call names
AtArg(b, arg) == b.fsPath = arg.fsPath /\ b.lineNumber = arg.lineNumber

\* what C20 says of a toggleBookmark step; afterAddOnly tells whether the
\* second of two consecutive toggles restores the sequence only when the
\* first one added
C20_Toggle(afterAddOnly) ==
    last'.op = "toggleBookmark" =>
        LET arg == last'.arg
        IN  /\ IF \E i \in 1..Len(Before) : AtArg(Before[i], arg)
               THEN /\ last'.res = "removed"
                    /\ \E i \in 1..Len(Before) :
                          /\ AtArg(Before[i], arg)
                          /\ After = SpliceOut(Before, i - 1)
               ELSE /\ last'.res = "added"
                    /\ Len(After) = Len(Before) + 1
                    /\ SubSeq(After, 1, Len(Before)) = Before
                    /\ AtArg(After[Len(After)], arg)
                    /\ After[Len(After)].label = arg.label
                    /\ After[Len(After)].id \notin AllIds(storage)
            /\ (/\ last.op = "toggleBookmark"
                /\ last.arg.fsPath = arg.fsPath
                /\ last.arg.lineNumber = arg.lineNumber
                /\ afterAddOnly => last.res = "added") => After = last.before

----------------------------------------------------------------------------
(* C21: renameContext *)

\* C21: renameContext(oldName, newName) fails and changes nothing when oldName
\* is absent, newName is empty, or newName is another existing context; on
\* success the context ids are the old ones with oldName replaced by newName,
\* the sequence that was under oldName is under newName, and the active id is
\* newName exactly when it was oldName, so it still names a context.
C21_RenameCarries ==
    [][last'.op = "renameContext" =>
         LET oldName == last'.arg.oldName
             newName == last'.arg.newName
         IN  IF \/ oldName \notin DOMAIN storage
                \/ newName = ""
                \/ (newName \in DOMAIN storage /\ newName # oldName)
             THEN /\ last'.res # "success"
                  /\ UNCHANGED <<storage, activeContextId, currentBookmarkIndex,
                                 workspaceState, nextId>>
             ELSE /\ last'.res = "success"
                  /\ DOMAIN storage' = (DOMAIN storage \ {oldName}) \cup {newName}
                  /\ storage'[newName] = storage[oldName]
                  /\ (activeContextId' = newName) <=> (activeContextId = oldName)
                  /\ activeContextId' \in DOMAIN storage']_vars

\* the active context, holding a bookmark, was renamed to a free name
C21_Witness ==
    /\ last.op = "renameContext"
    /\ last.res = "success"
    /\ last.arg = [oldName |-> "work", newName |-> "home"]
    /\ activeContextId = "home"
    /\ DOMAIN storage = {"default", "home"}
    /\ Len(storage["home"]) > 0

----------------------------------------------------------------------------
(* C22: a bookmark marked for deletion within a batch *)

\* the step reconciles an event with several content changes
Batch ==
    /\ last'.op = "handleTextDocumentChange"
    /\ Len(last'.arg.contentChanges) > 1
    /\ ~Unaffected(Before, last'.arg.fsPath)

\* the marks and line numbers after the first k content changes of the event
AfterChanges(event, k) ==
    ApplyChanges([bookmarks |-> Before, changed |-> {}, deleted |-> {}],
                 SubSeq(event.contentChanges, 1, k), event.fsPath)

\* the bookmark with the id, as the sequence holds it
Held(bookmarks, id) == bookmarks[Pos(bookmarks, id)]

\* C22: within one batch, a bookmark that a content change marked for deletion
\* stays marked, keeps the line number it had when it was marked whatever the
\* later changes of the batch are, and is not in the active sequence after the
\* batch.
C22_FirstDeletionWins ==
    [][Batch =>
         \A n \in {Len(last'.arg.contentChanges)} :
         \A full \in {AfterChanges(last'.arg, n)} :
         \A k \in 1..(n - 1) :
         \A part \in {AfterChanges(last'.arg, k)} :
         \A id \in part.deleted :
             /\ id \in full.deleted
             /\ Held(full.bookmarks, id) = Held(part.bookmarks, id)
             /\ id \notin IdsOf(After)
             /\ last'.res = TRUE]_vars

\* the first change joined line 3 to line 2 and deleted the bookmark of line
\* 4; the second put a line in at the top, which moved the bookmark of line 2
\* and would have moved the one of line 4
C22_Witness ==
    /\ last.op = "handleTextDocumentChange"
    /\ last.arg.contentChanges = <<Change(2, 1, 3, 1, <<>>), Change(0, 0, 0, 0, <<"\n">>)>>
    /\ last.res = TRUE
    /\ GetBookmarks = <<Bookmark(2, "f", 3, "x")>>

----------------------------------------------------------------------------
(* C23: line numbers stay positive *)

\* C23: every stored bookmark has a line number of 1 or more, whatever events
\* with one or several content changes were reconciled.
C23_LinePositive ==
    \A c \in DOMAIN storage : \A i \in 1..Len(storage[c]) :
        /\ storage[c][i].lineNumber \in Int
        /\ storage[c][i].lineNumber >= 1

\* line 0 was taken out twice in one batch: the bookmark of line 4 is on line 2
C23_Witness ==
    /\ last.op = "handleTextDocumentChange"
    /\ last.arg.contentChanges = <<Change(0, 0, 1, 0, <<>>), Change(0, 0, 1, 0, <<>>)>>
    /\ GetBookmarks = <<Bookmark(3, "f", 2, "x")>>

----------------------------------------------------------------------------
(* C26: the order of the content changes of a batch *)

\* the ranges of the two changes do not overlap: one ends where or before the
\* other starts
Apart(c1, c2) ==
    \/ ~IsBefore(c2.startLine, c2.startChar, c1.endLine, c1.endChar)
    \/ ~IsBefore(c1.startLine, c1.startChar, c2.endLine, c2.endChar)

\* the changes are given in positions of the document before the batch
PreBatch(changes) ==
    \A j, k \in 1..Len(changes) : j < k => Apart(changes[j], changes[k])

\* the sum of lineDelta over the changes that end above the line
RECURSIVE DeltaAbove(_, _)
DeltaAbove(changes, line) ==
    IF changes = <<>> THEN 0
    ELSE (IF Head(changes).endLine < line THEN ClaimedDelta(Head(changes)) ELSE 0)
         + DeltaAbove(Tail(changes), line)

\* the changes in the opposite order
Reversed(changes) == [k \in 1..Len(changes) |-> changes[Len(changes) + 1 - k]]

\* C26: for a batch of content changes given in positions of the document
\* before the batch, a bookmark of the file is deleted exactly if the range of
\* some change holds column 0 of the line it had before the batch, a surviving
\* bookmark has moved by the sum of lineDelta over the changes that end above
\* that line, and the changes listed in the opposite order give the same
\* sequence.
C26_BatchOrderFree ==
    [][(Batch /\ PreBatch(last'.arg.contentChanges)) =>
         LET changes == last'.arg.contentChanges
         IN  /\ \A i \in 1..Len(Before) :
                    Before[i].fsPath = last'.arg.fsPath =>
                        LET line == Before[i].lineNumber - 1
                        IN  IF \E k \in 1..Len(changes) : Covers(changes[k], line)
                            THEN Before[i].id \notin IdsOf(After)
                            ELSE ShiftedBy(Before[i], DeltaAbove(changes, line))
             /\ After = Reconciled(Before,
                                   [last'.arg EXCEPT !.contentChanges = Reversed(changes)]).bookmarks]_vars

----------------------------------------------------------------------------
(* C24: navigation and reordering leave the bookmark data alone *)

\* the bookmark records of a sequence
Records(bookmarks) == { bookmarks[i] : i \in 1..Len(bookmarks) }

\* C24: getCurrentBookmark, getAllContextIds and getActiveContextId change
\* nothing; getNextBookmark, getPreviousBookmark and setCurrentBookmarkById
\* change nothing but the cursor; reorderBookmarks changes nothing but the
\* order of the active sequence and the cursor: the records of the active
\* sequence, the other contexts and the active id are the same afterwards.
C24_NavigationKeepsData ==
    [][/\ last'.op \in {"getCurrentBookmark", "getAllContextIds", "getActiveContextId"} =>
            UNCHANGED <<storage, activeContextId, currentBookmarkIndex, workspaceState>>
       /\ last'.op \in {"getNextBookmark", "getPreviousBookmark", "setCurrentBookmarkById"} =>
            UNCHANGED <<storage, activeContextId, workspaceState>>
       /\ last'.op = "reorderBookmarks" =>
            /\ activeContextId' = activeContextId
            /\ DOMAIN storage' = DOMAIN storage
            /\ \A c \in DOMAIN storage \ {activeContextId} : storage'[c] = storage[c]
            /\ Len(After) = Len(Before)
            /\ Records(After) = Records(Before)]_vars

\* the first of three bookmarks was dragged onto the third
C24_Witness ==
    /\ last.op = "reorderBookmarks"
    /\ last.arg = [dragged |-> 1, target |-> 3]
    /\ GetBookmarks = <<Bookmark(2, "f", 1, "x"), Bookmark(1, "f", 1, "x"),
                        Bookmark(3, "f", 1, "x")>>
    /\ currentBookmarkIndex = 1

----------------------------------------------------------------------------
(* C25: bookmark operations act on the active context only *)

\* C25: addBookmark, removeBookmark, clearAllBookmarks, reorderBookmarks and
\* handleTextDocumentChange leave the set of context ids, the active id and
\* the sequence of every context other than the active one as they are, also
\* when such a sequence holds bookmarks of the edited file; after
\* clearAllBookmarks the active sequence is empty and the cursor unset.
C25_ScopedToActive ==
    [][last'.op \in {"addBookmark", "removeBookmark", "clearAllBookmarks",
                     "reorderBookmarks", "handleTextDocumentChange"} =>
         /\ DOMAIN storage' = DOMAIN storage
         /\ activeContextId' = activeContextId
         /\ \A c \in DOMAIN storage \ {activeContextId} : storage'[c] = storage[c]
         /\ last'.op = "clearAllBookmarks" =>
                /\ After = <<>>
                /\ currentBookmarkIndex' = -1]_vars

\* a change of file f deleted the bookmark of the active context; the bookmark
\* of f in the other context is where it was
C25_Witness ==
    /\ last.op = "handleTextDocumentChange"
    /\ last.arg.fsPath = "f"
    /\ last.res = TRUE
    /\ activeContextId = DEFAULT_CONTEXT
    /\ DOMAIN storage = {"default", "work"}
    /\ storage["default"] = <<>>
    /\ storage["work"] = <<Bookmark(2, "f", 1, "x")>>

----------------------------------------------------------------------------
(* C27: what handleTextDocumentChange reports *)

\* C27: handleTextDocumentChange returns true and flushes exactly when the
\* active sequence differs after the call (a bookmark is gone, or a line
\* number or a label has another value), and otherwise returns false and
\* leaves the store and the persisted entries as they are.
C27_ChangedIffDiffers ==
    [][last'.op = "handleTextDocumentChange" =>
         /\ (last'.res = TRUE) <=> (After # Before)
         /\ last'.res = TRUE => PersistedIs(workspaceState', storage', activeContextId')
         /\ last'.res = FALSE => UNCHANGED <<storage, workspaceState>>]_vars

----------------------------------------------------------------------------
(* C28: hydration and the contexts already stored *)

\* C28: when hydration finds a non-empty legacy sequence next to a
\* bookmark-storage that holds contexts, every stored context other than the
\* default one is in the store afterwards with its bookmarks, and in the
\* persisted bookmark-storage as well.
C28_KeepsStoredContexts ==
    (last.op = "load" /\ HasLegacy(last.arg) /\ Has(last.arg, "bookmark-storage")) =>
        \A c \in DOMAIN last.arg["bookmark-storage"] \ {DEFAULT_CONTEXT} :
            /\ c \in DOMAIN storage
            /\ storage[c] = last.arg["bookmark-storage"][c]
            /\ Has(workspaceState, "bookmark-storage")
            /\ c \in DOMAIN workspaceState["bookmark-storage"]
            /\ workspaceState["bookmark-storage"][c] = last.arg["bookmark-storage"][c]

----------------------------------------------------------------------------
(* C29: navigation commands whose jumps overlap *)

\* every jump started has completed
AllDone(started) == \A k \in 1..Len(started) : started[k].done

\* C29: a next or previous command that returns a bookmark has moved the
\* cursor onto it when the command returns and has started a jump to it; when
\* the last jump in flight completes, in whatever order the jumps completed,
\* the cursor is on the bookmark the most recent command returned, if that
\* bookmark is still in the sequence.
C29_LatestJumpWins ==
    [][/\ (last'.op \in {"getNextBookmark", "getPreviousBookmark"}
           /\ last'.res # Undefined) =>
              /\ CurrentBookmark(After, currentBookmarkIndex') = last'.res
              /\ jumps' = Append(jumps, [id |-> last'.res.id, done |-> FALSE])
       /\ (last'.op = "setCurrentBookmarkById" /\ jumps' # jumps /\ AllDone(jumps')) =>
              \A latest \in {jumps'[Len(jumps')].id} :
                  latest \in IdsOf(After) =>
                      CurrentBookmark(After, currentBookmarkIndex').id = latest]_vars

----------------------------------------------------------------------------
(* C30: mutating operations issued back to back *)

\* C30: when operations were issued without awaiting the flush of the one
\* before, then once every write issued has completed the persisted
\* bookmark-storage and bookmark-active-context are the mapping and the active
\* id in memory.
C30_LastWriteWins ==
    (writes # <<>> /\ Idle(writes)) =>
        PersistedIs(workspaceState, storage, activeContextId)

\* two operations were issued back to back: both writes of the mapping were
\* issued before either write of the active id, with different mappings, and
\* all four have completed
C30_Witness ==
    /\ Len(writes) = 4
    /\ Idle(writes)
    /\ writes[1].key = "bookmark-storage"
    /\ writes[2].key = "bookmark-storage"
    /\ writes[3].key = "bookmark-active-context"
    /\ writes[4].key = "bookmark-active-context"
    /\ writes[1].value # writes[2].value
    /\ activeContextId = "work"
    /\ workspaceState["bookmark-active-context"] = "work"
    /\ workspaceState["bookmark-storage"] = writes[2].value

====
